---- MODULE Spec2Model ----
(***************************************************************************)
(* Model of ova_to_ami.py: a one-shot command line tool that converts an   *)
(* OVA file into an AMI by five sequential stages (bucket, role, upload,   *)
(* import, monitor).  The state is the provider-side account (buckets,     *)
(* the role 'vmimport', uploaded objects, the import task) together with   *)
(* the state of the running process (position in main, locals, exit code,  *)
(* output streams).  Each provider call is one action; its outcome (the    *)
(* response or the exception raised) is chosen by the environment.  The    *)
(* account persists over successive runs of the tool.                      *)
(***************************************************************************)
EXTENDS Integers, Sequences, FiniteSets, TLC

\* ---------------------------------------------------------------- bounds
MaxRuns == 2        \* successive runs of the tool against one account
MaxBuckets == 2     \* distinct values the generated bucket name can take
MaxPolls == 3       \* non-terminal status answers one run may receive

\* ------------------------------------------------------ program constants
SLEEP_INTERVAL == 30

\* ------------------------------------------------------------ input space
\* Paths are sequences of components; the last one is the file name.
FilesOnDisk == { <<"vm.ova">>, <<"images", "disk.ova">> }

Paths == FilesOnDisk \cup { <<"images", "missing.ova">> }

BucketNames == 1..MaxBuckets

Regions == { "us-east-1", "eu-west-1" }

TerminalStatuses == { "completed", "deleted", "cancelled" }

Messages == { "absent", "User cancelled" }

NoTask == [Status |-> "none", StatusMessage |-> "absent", ImageId |-> "absent"]

VARIABLES
    \* provider account, persists over runs
    buckets,            \* bucket name -> "none" | "mine" | "other" (its owner)
    roleExists,         \* the role named IAM_ROLE_NAME ('vmimport') exists
    rolePolicy,         \* 0 = no bucket granted, else the bucket its inline policy grants
    roleCreates,        \* number of create_role calls that succeeded, over all runs
    objects,            \* set of <<bucket, key>> stored
    task,               \* the import task of the current run, provider side
    \* the running process
    pc,                 \* position in main
    ova_file_path, bucket_name, role_found, ova_s3_key, final_task_status,
    exitCode,           \* -1 while running, else the process exit code
    diag,               \* a handler printed a diagnostic to stderr
    unhandled,          \* the process died of an exception no handler caught
    out,                \* what the final report printed to stdout
    calls,              \* provider calls and sleeps of this run, <<name, outcome>>
    seen,               \* the "Current status" lines printed by the monitor
    runs

account == <<buckets, roleExists, rolePolicy, roleCreates, objects, task>>

locals == <<ova_file_path, bucket_name, role_found, ova_s3_key, final_task_status>>

streams == <<diag, unhandled, out, seen>>

vars == <<account, pc, locals, exitCode, streams, calls, runs>>

\* --------------------------------------------------------------- helpers
basename(p) == p[Len(p)]

Call(name, outcome) == calls' = Append(calls, <<name, outcome>>)

\* except Exception as e: print(..., file=sys.stderr); sys.exit(1)
Fatal == /\ pc' = "exited"
         /\ exitCode' = 1
         /\ diag' = TRUE
         /\ UNCHANGED <<unhandled, out>>

\* an exception no except clause matches: traceback, interpreter exits 1
Uncaught == /\ pc' = "exited"
            /\ exitCode' = 1
            /\ unhandled' = TRUE
            /\ UNCHANGED <<diag, out>>

Goto(l) == /\ pc' = l
           /\ UNCHANGED <<exitCode, diag, unhandled, out>>

Init == /\ buckets \in [BucketNames -> {"none", "other"}]
        /\ roleExists = FALSE
        /\ rolePolicy = 0
        /\ roleCreates = 0
        /\ objects = {}
        /\ task = NoTask
        /\ pc = "idle"
        /\ ova_file_path = <<>>
        /\ bucket_name = 0
        /\ role_found = "unknown"
        /\ ova_s3_key = ""
        /\ final_task_status = NoTask
        /\ exitCode = -1
        /\ diag = FALSE
        /\ unhandled = FALSE
        /\ out = {}
        /\ calls = <<>>
        /\ seen = <<>>
        /\ runs = 0

\* ------------------------------------------------------------------ main
\* The process is launched with --input path.
StartRun == /\ pc \in {"idle", "exited"}
            /\ runs < MaxRuns
            /\ runs' = runs + 1
            /\ \E p \in Paths : ova_file_path' = p
            /\ pc' = "check_file"
            /\ bucket_name' = 0
            /\ role_found' = "unknown"
            /\ ova_s3_key' = ""
            /\ final_task_status' = NoTask
            /\ task' = NoTask
            /\ exitCode' = -1
            /\ diag' = FALSE
            /\ unhandled' = FALSE
            /\ out' = {}
            /\ calls' = <<>>
            /\ seen' = <<>>
            /\ UNCHANGED <<buckets, roleExists, rolePolicy, roleCreates, objects>>

\* mutant: the existence check is missing
CheckFile_NoCheck == /\ pc = "check_file"
                     /\ Goto("init_clients")
                     /\ UNCHANGED <<account, locals, seen, calls, runs>>

\* if not os.path.exists(ova_file_path): ... sys.exit(1)
CheckFile == /\ pc = "check_file"
             /\ IF ova_file_path \in FilesOnDisk
                   THEN Goto("init_clients")
                   ELSE Fatal
             /\ UNCHANGED <<account, locals, seen, calls, runs>>

\* boto3.client(...) x3, then the bucket name and description are generated
InitClients == /\ pc = "init_clients"
               /\ \/ /\ Call("client", "ok")
                     /\ \E b \in BucketNames : bucket_name' = b
                     /\ Goto("create_bucket")
                  \/ /\ Call("client", "error")
                     /\ Fatal
                     /\ UNCHANGED bucket_name
               /\ UNCHANGED <<account, ova_file_path, role_found, ova_s3_key,
                              final_task_status, seen, runs>>

\* ------------------------------------------------------ create_s3_bucket
\* What the storage service answers to create_bucket(b) sent from region r.
CreateBucketResponses(b, r) ==
    {"error"} \cup
    CASE buckets[b] = "none"  -> {"ok"}
      [] buckets[b] = "mine"  -> IF r = "us-east-1" THEN {"ok"}
                                 ELSE {"BucketAlreadyOwnedByYou"}
      [] buckets[b] = "other" -> {"BucketAlreadyExists"}

\* mutant: a failed creation is logged but the run goes on
CreateBucket_Swallow ==
    /\ pc = "create_bucket"
    /\ \E r \in Regions : \E o \in CreateBucketResponses(bucket_name, r) :
         /\ Call("create_bucket", o)
         /\ buckets' = IF o = "ok" THEN [buckets EXCEPT ![bucket_name] = "mine"]
                       ELSE buckets
         /\ Goto("get_role")
    /\ UNCHANGED <<roleExists, rolePolicy, roleCreates, objects, task,
                   locals, seen, runs>>

\* mutant: BucketAlreadyOwnedByYou is not caught apart from other errors
CreateBucket_OwnedIsFatal ==
    /\ pc = "create_bucket"
    /\ \E r \in Regions : \E o \in CreateBucketResponses(bucket_name, r) :
         /\ Call("create_bucket", o)
         /\ buckets' = IF o = "ok" THEN [buckets EXCEPT ![bucket_name] = "mine"]
                       ELSE buckets
         /\ IF o = "ok" THEN Goto("get_role") ELSE Fatal
    /\ UNCHANGED <<roleExists, rolePolicy, roleCreates, objects, task,
                   locals, seen, runs>>

CreateBucket ==
    /\ pc = "create_bucket"
    /\ \E r \in Regions : \E o \in CreateBucketResponses(bucket_name, r) :
         /\ Call("create_bucket", o)
         /\ buckets' = IF o = "ok" THEN [buckets EXCEPT ![bucket_name] = "mine"]
                       ELSE buckets
         /\ IF o \in {"ok", "BucketAlreadyOwnedByYou"}
               THEN Goto("get_role")
               ELSE Fatal
    /\ UNCHANGED <<roleExists, rolePolicy, roleCreates, objects, task,
                   locals, seen, runs>>

\* ------------------------------------------- create_iam_role_and_policy
GetRoleResponses == {"error"} \cup (IF roleExists THEN {"ok"} ELSE {"NoSuchEntity"})

\* mutant: an existing role gets its policy rewritten for the new bucket
GetRole_Refresh ==
    /\ pc = "get_role"
    /\ \E o \in GetRoleResponses :
         /\ Call("get_role", o)
         /\ CASE o = "ok"           -> role_found' = "exists" /\ Goto("put_role_policy")
              [] o = "NoSuchEntity" -> role_found' = "absent" /\ Goto("create_role")
              [] o = "error"        -> role_found' = role_found /\ Uncaught
    /\ UNCHANGED <<account, ova_file_path, bucket_name, ova_s3_key,
                   final_task_status, seen, runs>>

GetRole ==
    /\ pc = "get_role"
    /\ \E o \in GetRoleResponses :
         /\ Call("get_role", o)
         /\ CASE o = "ok"           -> role_found' = "exists" /\ Goto("upload_file")
              [] o = "NoSuchEntity" -> role_found' = "absent" /\ Goto("create_role")
              [] o = "error"        -> role_found' = role_found /\ Uncaught
    /\ UNCHANGED <<account, ova_file_path, bucket_name, ova_s3_key,
                   final_task_status, seen, runs>>

CreateRoleResponses == {"error"} \cup
                       (IF roleExists THEN {"EntityAlreadyExists"} ELSE {"ok"})

CreateRole ==
    /\ pc = "create_role"
    /\ \E o \in CreateRoleResponses :
         /\ Call("create_role", o)
         /\ IF o = "ok"
               THEN /\ roleExists' = TRUE
                    /\ rolePolicy' = 0
                    /\ roleCreates' = roleCreates + 1
                    /\ Goto("put_role_policy")
               ELSE /\ UNCHANGED <<roleExists, rolePolicy, roleCreates>>
                    /\ Fatal
    /\ UNCHANGED <<buckets, objects, task, locals, seen, runs>>

PutRolePolicyResponses == {"error"} \cup
                          (IF roleExists THEN {"ok"} ELSE {"NoSuchEntity"})

\* mutant: the policy document does not name the bucket of this run
PutRolePolicy_NoBucket ==
    /\ pc = "put_role_policy"
    /\ \E o \in PutRolePolicyResponses :
         /\ Call("put_role_policy", o)
         /\ IF o = "ok"
               THEN rolePolicy' = 0 /\ Goto("wait_role")
               ELSE rolePolicy' = rolePolicy /\ Fatal
    /\ UNCHANGED <<buckets, roleExists, roleCreates, objects, task,
                   locals, seen, runs>>

PutRolePolicy ==
    /\ pc = "put_role_policy"
    /\ \E o \in PutRolePolicyResponses :
         /\ Call("put_role_policy", o)
         /\ IF o = "ok"
               THEN rolePolicy' = bucket_name /\ Goto("wait_role")
               ELSE rolePolicy' = rolePolicy /\ Fatal
    /\ UNCHANGED <<buckets, roleExists, roleCreates, objects, task,
                   locals, seen, runs>>

WaitRole ==
    /\ pc = "wait_role"
    /\ \E o \in {"ok", "error"} :
         /\ Call("wait_role_exists", o)
         /\ IF o = "ok" THEN Goto("upload_file") ELSE Fatal
    /\ UNCHANGED <<account, locals, seen, runs>>

\* ------------------------------------------------------ upload_ova_to_s3
UploadFile ==
    /\ pc = "upload_file"
    /\ \E o \in {"ok", "error"} :
         /\ Call("upload_file", o)
         /\ IF o = "ok"
               THEN /\ objects' = objects \cup {<<bucket_name, basename(ova_file_path)>>}
                    /\ ova_s3_key' = basename(ova_file_path)
                    /\ Goto("import_image")
               ELSE /\ UNCHANGED <<objects, ova_s3_key>>
                    /\ Fatal
    /\ UNCHANGED <<buckets, roleExists, rolePolicy, roleCreates, task,
                   ova_file_path, bucket_name, role_found, final_task_status,
                   seen, runs>>

\* ---------------------------------------------------------- import_image
ImportImage ==
    /\ pc = "import_image"
    /\ \E o \in {"ok", "error"} :
         /\ Call("import_image", o)
         /\ IF o = "ok"
               THEN /\ task' = [NoTask EXCEPT !.Status = "active"]
                    /\ Goto("describe")
               ELSE /\ task' = task
                    /\ Fatal
    /\ UNCHANGED <<buckets, roleExists, rolePolicy, roleCreates, objects,
                   locals, seen, runs>>

\* The provider finishes the import task, whatever the tool is doing.
ProviderAdvance ==
    /\ task.Status = "active"
    /\ \E s \in TerminalStatuses : \E m \in Messages :
         task' = [Status |-> s, StatusMessage |-> m,
                  ImageId |-> IF s = "completed" THEN "ami-0123456789abcdef0"
                              ELSE "absent"]
    /\ UNCHANGED <<buckets, roleExists, rolePolicy, roleCreates, objects,
                   pc, locals, exitCode, streams, calls, runs>>

\* --------------------------------------------------- monitor_import_task
\* mutant: only 'completed' ends the loop
Describe_OnlyCompleted ==
    /\ pc = "describe"
    /\ Len(seen) < MaxPolls
    /\ \/ /\ Call("describe_import_image_tasks", "error")
          /\ Fatal
          /\ UNCHANGED <<seen, final_task_status>>
       \/ /\ Call("describe_import_image_tasks", "ok")
          /\ seen' = Append(seen, task.Status)
          /\ IF task.Status \in {"completed"}
                THEN final_task_status' = task /\ Goto("report")
                ELSE final_task_status' = final_task_status /\ Goto("sleep")
          /\ UNCHANGED <<diag, unhandled, out>>
    /\ UNCHANGED <<account, ova_file_path, bucket_name, role_found,
                   ova_s3_key, runs>>

\* One pass of the loop body up to the return or the sleep.  While the task
\* is unfinished a run makes at most MaxPolls queries.
Describe ==
    /\ pc = "describe"
    /\ task.Status = "active" => Len(seen) < MaxPolls
    /\ \/ /\ Call("describe_import_image_tasks", "error")
          /\ Fatal
          /\ UNCHANGED <<seen, final_task_status>>
       \/ /\ Call("describe_import_image_tasks", "ok")
          /\ seen' = Append(seen, task.Status)
          /\ IF task.Status \in {"completed", "deleted", "cancelled"}
                THEN final_task_status' = task /\ Goto("report")
                ELSE final_task_status' = final_task_status /\ Goto("sleep")
          /\ UNCHANGED <<diag, unhandled, out>>
    /\ UNCHANGED <<account, ova_file_path, bucket_name, role_found,
                   ova_s3_key, runs>>

\* mutant: the interval grows with the number of polls
Sleep_Backoff ==
    /\ pc = "sleep"
    /\ Call("sleep", SLEEP_INTERVAL * Len(seen))
    /\ Goto("describe")
    /\ UNCHANGED <<account, locals, seen, runs>>

\* time.sleep(30)
Sleep ==
    /\ pc = "sleep"
    /\ Call("sleep", SLEEP_INTERVAL)
    /\ Goto("describe")
    /\ UNCHANGED <<account, locals, seen, runs>>

\* ------------------------------------------------- main, after the monitor
StatusMessageOr(t, default) ==
    IF t.StatusMessage = "absent" THEN default ELSE t.StatusMessage

\* mutant: the failure report leaves the status message out
Report_NoMessage ==
    /\ pc = "report"
    /\ IF final_task_status.Status = "completed"
          THEN /\ out' = {<<"ami", final_task_status.ImageId>>}
               /\ pc' = "exited"
               /\ exitCode' = 0
               /\ UNCHANGED <<diag, unhandled>>
          ELSE /\ out' = {<<"status", final_task_status.Status>>}
               /\ pc' = "exited"
               /\ exitCode' = 0
               /\ UNCHANGED <<diag, unhandled>>
    /\ UNCHANGED <<account, locals, seen, calls, runs>>

Report ==
    /\ pc = "report"
    /\ IF final_task_status.Status = "completed"
          THEN IF final_task_status.ImageId = "absent"
                  THEN Uncaught
                  ELSE /\ out' = {<<"ami", final_task_status.ImageId>>}
                       /\ pc' = "exited"
                       /\ exitCode' = 0
                       /\ UNCHANGED <<diag, unhandled>>
          ELSE /\ out' = {<<"status", final_task_status.Status>>,
                          <<"message", StatusMessageOr(final_task_status, "N/A")>>}
               /\ pc' = "exited"
               /\ exitCode' = 0
               /\ UNCHANGED <<diag, unhandled>>
    /\ UNCHANGED <<account, locals, seen, calls, runs>>

Step == \/ CheckFile \/ InitClients \/ CreateBucket
        \/ GetRole \/ CreateRole \/ PutRolePolicy \/ WaitRole
        \/ UploadFile \/ ImportImage \/ Describe \/ Sleep \/ Report

Next == StartRun \/ Step \/ ProviderAdvance

Spec == Init /\ [][Next]_vars

\* The process is sequential and blocking, so it always takes its next step;
\* the provider finishes every import task it accepted (the hypothesis of
\* the termination claim about the monitor).
LiveSpec == Init /\ [][Next]_vars /\ WF_vars(Step) /\ WF_vars(ProviderAdvance)

\* ------------------------------------------------------ reading the log
Stage(name) ==
    CASE name = "client" -> 0
      [] name = "create_bucket" -> 1
      [] name \in {"get_role", "create_role", "put_role_policy", "wait_role_exists"} -> 2
      [] name = "upload_file" -> 3
      [] name = "import_image" -> 4
      [] name \in {"describe_import_image_tasks", "sleep"} -> 5

Called(name) == \E i \in 1..Len(calls) : calls[i][1] = name

CountCalls(name) == Cardinality({i \in 1..Len(calls) : calls[i][1] = name})

Is(c, name, outcome) == c[1] = name /\ c[2] = outcome

\* outcomes the code tolerates: the call returned, or raised one of the two
\* exceptions the code continues from
Tolerated(c) ==
    \/ c[1] = "sleep"
    \/ c[1] # "sleep" /\ c[2] = "ok"
    \/ Is(c, "create_bucket", "BucketAlreadyOwnedByYou")
    \/ Is(c, "get_role", "NoSuchEntity")

LastCall == calls[Len(calls)]

LastCallFailed == calls # <<>> /\ ~Tolerated(LastCall)

IsMonitorCall(c) == c[1] \in {"describe_import_image_tasks", "sleep"}

MonitorCalls == SelectSeq(calls, IsMonitorCall)

RoleStageReturned ==
    \/ pc \in {"upload_file", "import_image", "describe", "sleep", "report"}
    \/ pc = "exited" /\ Called("upload_file")

MonitorEntered == Called("import_image") /\ task.Status # "none"

\* ---------------------------------------------------------------- claims

\* C1: a terminated run has exit code 0 exactly when every stage succeeded
\* and the import task ended 'completed'; a task that ended 'deleted' or
\* 'cancelled' gives a non-zero exit code, with status and message printed.
ExitZeroIffCompleted ==
    pc = "exited" =>
        /\ exitCode = 0 <=> (~LastCallFailed /\ final_task_status.Status = "completed")
        /\ final_task_status.Status \in {"deleted", "cancelled"} =>
              /\ exitCode # 0
              /\ <<"status", final_task_status.Status>> \in out

\* C2: a run whose input path does not exist makes no provider call at all,
\* constructs no client, and ends with a non-zero exit code.
NoCallWithoutInputFile ==
    (pc # "idle" /\ ova_file_path \notin FilesOnDisk) =>
        /\ calls = <<>>
        /\ pc \in {"check_file", "exited"}
        /\ pc = "exited" => (exitCode = 1 /\ diag)

NoCallWithoutInputFileWitness ==
    pc = "exited" /\ ova_file_path = <<"images", "missing.ova">> /\ exitCode = 1

\* C3: the calls of a run are in stage order, a stage's calls come only after
\* the earlier stages succeeded, every call before the monitor (create_bucket,
\* upload_file, import_image among them) is made at most once, no call
\* follows a failed one, and a failed create_bucket ends the run with exit
\* code 1 before any later call.
StrictlyForward ==
    /\ \A i, j \in 1..Len(calls) : i < j => Stage(calls[i][1]) <= Stage(calls[j][1])
    /\ \A i, j \in 1..Len(calls) :
          (i # j /\ calls[i][1] = calls[j][1]) => Stage(calls[i][1]) = 5
    /\ \A i \in 1..Len(calls) : ~Tolerated(calls[i]) => i = Len(calls)
    /\ LastCallFailed => (pc = "exited" /\ exitCode = 1)
    /\ Called("get_role") => buckets[bucket_name] = "mine"
    /\ Called("upload_file") => (buckets[bucket_name] = "mine" /\ roleExists)
    /\ Called("import_image") => <<bucket_name, basename(ova_file_path)>> \in objects
    /\ Called("describe_import_image_tasks") => task.Status # "none"

StrictlyForwardWitness ==
    /\ pc = "exited"
    /\ exitCode = 1
    /\ Len(calls) = 2
    /\ Is(calls[1], "client", "ok")
    /\ Is(LastCall, "create_bucket", "error")

\* C4: every failed provider call, the two tolerated outcomes aside, is
\* handled where it occurs: a diagnostic on stderr and exit code 1, never an
\* exception that leaves the stage function unhandled.
EveryFailureHandledAtCallSite ==
    LastCallFailed => (pc = "exited" /\ exitCode = 1 /\ diag /\ ~unhandled)

\* C5 as stated: once the role stage has returned, the role exists and its
\* policy grants read access to the bucket of the current run.
RoleGrantsCurrentBucket ==
    RoleStageReturned => (roleExists /\ rolePolicy = bucket_name)

\* C5 amended: once the role stage has returned, the role exists; its policy
\* grants the bucket of the current run when this run found the role absent
\* and created it.
RoleGrantsBucketWhenCreated ==
    RoleStageReturned =>
        /\ roleExists
        /\ role_found \in {"exists", "absent"}
        /\ role_found = "absent" => rolePolicy = bucket_name

RoleGrantsBucketWhenCreatedWitness ==
    /\ pc = "report"
    /\ role_found = "absent"
    /\ rolePolicy = bucket_name
    /\ roleCreates = 1

\* C6: when get_role finds the role, the run makes no create_role,
\* put_role_policy or wait call, the stage returns normally, and the role and
\* its policy are left as they were; over all runs the role is created at
\* most once and is not changed after the run that created it.
ExistingRoleUntouched ==
    /\ [](role_found = "exists" =>
            /\ ~Called("create_role")
            /\ ~Called("put_role_policy")
            /\ ~Called("wait_role_exists")
            /\ RoleStageReturned)
    /\ [](roleCreates <= 1)
    /\ [][(roleExists /\ role_found # "absent") =>
            (roleExists' /\ rolePolicy' = rolePolicy /\ roleCreates' = roleCreates)]_vars

ExistingRoleUntouchedWitness ==
    /\ runs = 2
    /\ role_found = "exists"
    /\ roleCreates = 1
    /\ rolePolicy # bucket_name
    /\ pc = "exited"
    /\ exitCode = 0

\* C7: the monitor returns the task on the first terminal status it sees;
\* no query and no sleep follows, and the number of queries equals the index
\* of that first terminal observation.
MonitorStopsAtFirstTerminal ==
    LET n == Len(seen) IN
    /\ \A i \in 1..n : seen[i] \in TerminalStatuses => i = n
    /\ (n > 0 /\ seen[n] \in TerminalStatuses) =>
          /\ CountCalls("describe_import_image_tasks") = n
          /\ CountCalls("sleep") = n - 1
          /\ Is(LastCall, "describe_import_image_tasks", "ok")
          /\ pc \in {"report", "exited"}
          /\ final_task_status.Status = seen[n]

MonitorStopsAtFirstTerminalWitness ==
    /\ Len(seen) = 3
    /\ seen[3] = "deleted"
    /\ pc = "report"

\* C8: while every status query succeeds with a non-terminal status, the
\* monitor neither returns nor exits: it stays in the loop, and its calls
\* are queries separated by exactly one sleep of the fixed interval each.
AllPending ==
    /\ seen # <<>>
    /\ \A i \in 1..Len(seen) : seen[i] \notin TerminalStatuses
    /\ ~LastCallFailed

PollsForeverWhilePending ==
    AllPending =>
        /\ pc \in {"sleep", "describe"}
        /\ exitCode = -1
        /\ final_task_status = NoTask
        /\ Len(MonitorCalls) = 2 * Len(seen) - (IF pc = "sleep" THEN 1 ELSE 0)
        /\ \A k \in 1..Len(MonitorCalls) :
              IF k % 2 = 1
                 THEN Is(MonitorCalls[k], "describe_import_image_tasks", "ok")
                 ELSE Is(MonitorCalls[k], "sleep", SLEEP_INTERVAL)
        /\ pc = "sleep" => ENABLED Sleep

PollsForeverWhilePendingWitness ==
    /\ AllPending
    /\ Len(seen) = MaxPolls
    /\ pc = "describe"

\* C9: a create_bucket answered 'already owned by you' counts as success and
\* the run goes on to the role stage, so creating the same bucket again in a
\* later run succeeds; every other failed creation ends the run with exit
\* code 1.
BucketCreationIdempotent ==
    \A i \in 1..Len(calls) : calls[i][1] = "create_bucket" =>
        IF calls[i][2] \in {"ok", "BucketAlreadyOwnedByYou"}
           THEN /\ buckets[bucket_name] = "mine"
                /\ i = Len(calls) => pc = "get_role"
           ELSE /\ i = Len(calls)
                /\ pc = "exited"
                /\ exitCode = 1

BucketCreationIdempotentWitness ==
    /\ runs = 2
    /\ pc = "get_role"
    /\ Is(LastCall, "create_bucket", "BucketAlreadyOwnedByYou")

\* C10: a run that reaches the monitor terminates once the provider reports
\* a terminal status; it has then printed the image identifier if the status
\* is 'completed' and the status with its message otherwise; the only other
\* end of the monitor stage is a failed query, with exit code 1.
MonitorOutcome ==
    (pc = "exited" /\ MonitorEntered) =>
        \/ /\ Is(LastCall, "describe_import_image_tasks", "error")
           /\ exitCode = 1
           /\ diag
           /\ out = {}
        \/ /\ Is(LastCall, "describe_import_image_tasks", "ok")
           /\ final_task_status = task
           /\ final_task_status.Status = "completed"
           /\ out = {<<"ami", task.ImageId>>}
        \/ /\ Is(LastCall, "describe_import_image_tasks", "ok")
           /\ final_task_status = task
           /\ final_task_status.Status \in {"deleted", "cancelled"}
           /\ out = {<<"status", task.Status>>,
                     <<"message", StatusMessageOr(task, "N/A")>>}

MonitorTerminatesAndReports ==
    /\ (pc = "describe") ~> (pc = "exited")
    /\ []MonitorOutcome

MonitorTerminatesAndReportsWitness ==
    /\ pc = "exited"
    /\ Len(seen) = 2
    /\ final_task_status.Status = "cancelled"
    /\ <<"message", "User cancelled">> \in out
====
